---------------------------- MODULE Spec2Model ----------------------------
(***************************************************************************)
(* A model of the nanoCAD engine (src/src/nanocad.c): the unit converter   *)
(* to_base_unit, the coordinate parser parse_coordinates, the line         *)
(* tokenizer parse_line, the variable store set_variable, the object       *)
(* constructor create_object and the per-line dispatcher parse_command.    *)
(*                                                                         *)
(* C strings are sequences of one-character strings.  A call of            *)
(* exit(EXIT_FAILURE) ends the process: the model records it in `alive'.   *)
(* A read of an uninitialized value takes its value from a garbage         *)
(* parameter that the actions choose nondeterministically.                 *)
(***************************************************************************)
EXTENDS Integers, Sequences, FiniteSets, TLC

(***************************************************************************)
(* Sizes.  nanocad.h, which sets the four buffer sizes, is not among the   *)
(* sources; the values below bound the model.                              *)
(***************************************************************************)
COMMAND_MAX_SIZE == 10
ARGUMENT_MAX_SIZE == 12
ARGUMENT_ARRAY_MAX_SIZE == 4
VARIABLE_MAX_SIZE == 4
\* Number of lines the driver hands to parse_command in one run.
MaxLines == 3

\* Object type ids: is_obj_command returns the index in valid_objects plus 1.
TYPE_LINE == 1
VALID_OBJECTS_SIZE == 3

(***************************************************************************)
(* Characters.                                                             *)
(***************************************************************************)
Digits == <<"0", "1", "2", "3", "4", "5", "6", "7", "8", "9">>

\* (c >= 0x30) && (c <= 0x39)
IsDigit(c) == c \in {Digits[i] : i \in 1..10}

\* (c >= 0x2B) && (c <= 0x2E): the four characters + , - .
IsNumPunct(c) == c \in {"+", ",", "-", "."}

\* (c >= 0x61) && (c <= 0x7A)
IsLower(c) ==
    c \in {"a", "b", "c", "d", "e", "f", "g", "h", "i", "j", "k", "l", "m",
           "n", "o", "p", "q", "r", "s", "t", "u", "v", "w", "x", "y", "z"}

\* isspace() in the C locale (the vertical tab is written "VT").
IsSpace(c) == c \in {" ", "\t", "\n", "\r", "\f", "VT"}

DigitVal(c) == CHOOSE d \in 0..9 : Digits[d + 1] = c

RECURSIVE Pow10(_)
Pow10(n) == IF n = 0 THEN 1 ELSE 10 * Pow10(n - 1)

\* Conversion of a double to long truncates toward zero.
TruncDiv(a, b) == IF a >= 0 THEN a \div b ELSE -((-a) \div b)

(***************************************************************************)
(* chomp: scanning from the end, every whitespace character is replaced by *)
(* the terminator, so the string ends at its first whitespace character.   *)
(***************************************************************************)
RECURSIVE FirstSpace(_, _)
FirstSpace(str, i) ==
    IF i > Len(str) THEN i
    ELSE IF IsSpace(str[i]) THEN i
    ELSE FirstSpace(str, i + 1)

chomp(str) == SubSeq(str, 1, FirstSpace(str, 1) - 1)

(***************************************************************************)
(* atof on the numeral buffer of to_base_unit, which holds only digits and *)
(* the characters + , - . : an optional sign, digits, an optional point    *)
(* and digits; the scan stops at the first character that does not fit,    *)
(* and a text without a digit gives 0.  The value is sign*digits/10^scale. *)
(***************************************************************************)
RECURSIVE AtofScan(_, _, _, _, _)
AtofScan(s, i, acc, scale, seenPoint) ==
    IF i > Len(s) THEN [digits |-> acc, scale |-> scale]
    ELSE IF IsDigit(s[i])
      THEN AtofScan(s, i + 1, acc * 10 + DigitVal(s[i]),
                    IF seenPoint THEN scale + 1 ELSE scale, seenPoint)
    ELSE IF s[i] = "." /\ ~seenPoint
      THEN AtofScan(s, i + 1, acc, scale, TRUE)
    ELSE [digits |-> acc, scale |-> scale]

atof(s) ==
    LET signed == Len(s) > 0 /\ s[1] \in {"+", "-"}
        r == AtofScan(s, IF signed THEN 2 ELSE 1, 0, 0, FALSE)
    IN [neg |-> signed /\ s[1] = "-", digits |-> r.digits, scale |-> r.scale]

\* (long)(orig * mult)
ScaleToLong(orig, mult) ==
    LET v == TruncDiv(orig.digits * mult, Pow10(orig.scale))
    IN IF orig.neg THEN -v ELSE v

(***************************************************************************)
(* to_base_unit.  The result is [status, err, val, ub]; status "exit" is a *)
(* call of exit(EXIT_FAILURE).  ub is the undefined behaviour met: when no *)
(* numeral character was stored, strnum is read uninitialized and the      *)
(* value is the garbage g; unit has room for two letters and the           *)
(* terminator, a third letter stores past it.                              *)
(***************************************************************************)
RECURSIVE UnitScan(_, _, _)
UnitScan(str, i, st) ==
    IF i > Len(str) \/ st.err # "" THEN st
    ELSE LET c == str[i] IN
      IF st.stage = "PARSING_NUMBER" THEN
        IF IsDigit(c) \/ IsNumPunct(c)
          THEN UnitScan(str, i + 1,
                 [st EXCEPT !.strnum = Append(st.strnum, c), !.numInit = TRUE])
        ELSE IF IsLower(c)
          THEN UnitScan(str, i + 1,
                 [st EXCEPT !.stage = "PARSING_UNIT", !.unit = <<c>>])
        ELSE [st EXCEPT !.err = "InvalidNumberChar"]
      ELSE
        IF IsLower(c)
          THEN UnitScan(str, i + 1, [st EXCEPT !.unit = Append(st.unit, c)])
        ELSE [st EXCEPT !.err = "InvalidUnitChar"]

UnitMultiplier(unit) ==
    IF unit = <<>> THEN 1
    ELSE IF unit = <<"m">> THEN 1000
    ELSE IF unit = <<"c", "m">> THEN 10
    ELSE IF unit = <<"m", "m">> THEN 1
    ELSE 0

\* The part of to_base_unit after the scan: st is the state the scan ended in.
UnitResult(st, g) ==
    LET ub == (IF Len(st.unit) >= 3 THEN {"UnitOverrun"} ELSE {})
              \cup (IF st.err = "" /\ UnitMultiplier(st.unit) # 0 /\ ~st.numInit
                      THEN {"StrnumUninitialized"} ELSE {})
    IN IF st.err # ""
         THEN [status |-> "exit", err |-> st.err, val |-> 0, ub |-> ub]
       ELSE IF UnitMultiplier(st.unit) = 0
         THEN [status |-> "exit", err |-> "InvalidUnit", val |-> 0, ub |-> ub]
       ELSE IF ~st.numInit
         THEN [status |-> "ok", err |-> "", val |-> g, ub |-> ub]
       ELSE [status |-> "ok", err |-> "", ub |-> ub,
             val |-> ScaleToLong(atof(st.strnum), UnitMultiplier(st.unit))]

to_base_unit(str, g) ==
    UnitResult(UnitScan(str, 1, [stage |-> "PARSING_NUMBER", strnum |-> <<>>,
                                 numInit |-> FALSE, unit |-> <<>>,
                                 err |-> ""]), g)

(***************************************************************************)
(* calc_coordinate.  coord holds the converted length on the axis of the   *)
(* operation.  The default branch (exit) is the status "exit".             *)
(***************************************************************************)
\* calc_coordinate with the two operations exchanged.
calc_coordinate_swapped(oper, base, coord) ==
    IF oper = "h"
      THEN [status |-> "ok", err |-> "", x |-> coord.x + base.x, y |-> base.y,
            ub |-> {}]
    ELSE IF oper = "w"
      THEN [status |-> "ok", err |-> "", x |-> base.x, y |-> coord.y + base.y,
            ub |-> {}]
    ELSE [status |-> "exit", err |-> "InvalidCoordOperation", x |-> 0, y |-> 0,
          ub |-> {}]

calc_coordinate(oper, base, coord) ==
    IF oper = "w"
      THEN [status |-> "ok", err |-> "", x |-> coord.x + base.x, y |-> base.y,
            ub |-> {}]
    ELSE IF oper = "h"
      THEN [status |-> "ok", err |-> "", x |-> base.x, y |-> coord.y + base.y,
            ub |-> {}]
    ELSE [status |-> "exit", err |-> "InvalidCoordOperation", x |-> 0, y |-> 0,
          ub |-> {}]

(***************************************************************************)
(* parse_coordinates.  base is <<>> for NULL and <<b>> for a pointer to b; *)
(* the result is [status, err, x, y, ub].                                  *)
(* coord_x and coord_y start as "0"; a character stored at cur_pos is      *)
(* followed by the terminator.                                             *)
(***************************************************************************)
StoreAt(buf, pos, c) == Append(SubSeq(buf, 1, pos), c)

RECURSIVE CoordScan(_, _, _)
CoordScan(arg, i, st) ==
    IF i > Len(arg) \/ st.err # "" THEN st
    ELSE LET c == arg[i] IN
      IF st.stage = "PARSING_START" THEN
        IF c = "x"
          THEN CoordScan(arg, i + 1,
                 [st EXCEPT !.cur_pos = 0, !.stage = "PARSING_COORDX"])
        ELSE IF c = "w" \/ c = "h"
          THEN CoordScan(arg, i + 1,
                 [st EXCEPT !.cur_pos = 0, !.operation = c,
                            !.stage = IF c = "w" THEN "PARSING_WIDTH"
                                      ELSE "PARSING_HEIGHT"])
        ELSE [st EXCEPT !.err = "UnknownFirstLetter"]
      ELSE IF st.stage = "PARSING_COORDX" THEN
        IF c = ";"
          THEN CoordScan(arg, i + 1,
                 [st EXCEPT !.cur_pos = 0, !.stage = "PARSING_ARGUMENTS"])
        ELSE CoordScan(arg, i + 1,
                 [st EXCEPT !.coord_x = StoreAt(st.coord_x, st.cur_pos, c),
                            !.cur_pos = st.cur_pos + 1])
      ELSE IF st.stage = "PARSING_ARGUMENTS" THEN
        IF c = "y"
          THEN CoordScan(arg, i + 1,
                 [st EXCEPT !.cur_pos = 0, !.stage = "PARSING_COORDY"])
        ELSE [st EXCEPT !.err = "UnknownNextArgument"]
      ELSE IF st.stage = "PARSING_WIDTH" THEN
        CoordScan(arg, i + 1,
                 [st EXCEPT !.coord_x = StoreAt(st.coord_x, st.cur_pos, c),
                            !.cur_pos = st.cur_pos + 1])
      ELSE \* PARSING_COORDY and PARSING_HEIGHT
        CoordScan(arg, i + 1,
                 [st EXCEPT !.coord_y = StoreAt(st.coord_y, st.cur_pos, c),
                            !.cur_pos = st.cur_pos + 1])

CoordOut(status, err, x, y, ub) ==
    [status |-> status, err |-> err, x |-> x, y |-> y, ub |-> ub]

\* parse_coordinates refusing a relative coordinate that has no base.
CoordCalc_RequireBase(operation, base, x, y, ub) ==
    IF operation = ""
      THEN CoordOut("ok", "", x, y, ub)
    ELSE IF base = <<>>
      THEN CoordOut("exit", "RelativeWithoutBase", 0, 0, ub)
    ELSE [calc_coordinate(operation, base[1], [x |-> x, y |-> y])
            EXCEPT !.ub = ub]

\* if ((base != NULL) && (operation != 0)) calc_coordinate(operation, *base, coord);
CoordCalc(operation, base, x, y, ub) ==
    IF base # <<>> /\ operation # ""
      THEN [calc_coordinate(operation, base[1], [x |-> x, y |-> y])
              EXCEPT !.ub = ub]
      ELSE CoordOut("ok", "", x, y, ub)

\* The part of parse_coordinates after the scan: cx and cy are the results
\* of to_base_unit(coord_x) and to_base_unit(coord_y).
CoordConvert(st, base, cx, cy) ==
    IF st.err # "" THEN CoordOut("exit", st.err, 0, 0, {})
    ELSE IF cx.status = "exit" THEN CoordOut("exit", cx.err, 0, 0, cx.ub)
    ELSE IF cy.status = "exit"
      THEN CoordOut("exit", cy.err, 0, 0, cx.ub \cup cy.ub)
    ELSE CoordCalc(st.operation, base, cx.val, cy.val, cx.ub \cup cy.ub)

CoordScanned(st, base, g) ==
    CoordConvert(st, base, to_base_unit(st.coord_x, g[1]),
                 to_base_unit(st.coord_y, g[2]))

\* g is <<gx, gy>>: the garbage read for the x and for the y numeral.
parse_coordinates(arg, base, g) ==
    CoordScanned(CoordScan(arg, 1, [stage |-> "PARSING_START", cur_pos |-> 0,
                                    operation |-> "", coord_x |-> <<"0">>,
                                    coord_y |-> <<"0">>, err |-> ""]),
                 base, g)

(***************************************************************************)
(* parse_line.  arguments is the caller's array of ARGUMENT_ARRAY_MAX_SIZE *)
(* slots, each Uninit until stored.  The result is [argc, command,         *)
(* arguments, err, ub]; argc = -1 is the failure return.  ub collects the  *)
(* undefined behaviour met on the way: a store to slot -1 or past the last *)
(* slot, a read of cur_arg before any character was stored in it, a store  *)
(* past the end of cur_arg.                                                *)
(***************************************************************************)
Uninit == <<"<uninit>">>

StoreArgument(st, val) ==
    LET slot == st.argc - 1 IN
    IF slot < 0
      THEN [st EXCEPT !.ub = st.ub \cup {"ArgumentSlotBelowArray"}]
    ELSE IF slot >= ARGUMENT_ARRAY_MAX_SIZE
      THEN [st EXCEPT !.ub = st.ub \cup {"ArgumentSlotPastArray"}]
    ELSE [st EXCEPT !.arguments[slot + 1] = val]

\* chomp(cur_arg); arguments[argc - 1] = strdup(cur_arg);
ChompAndStore(st) ==
    LET t == [st EXCEPT !.cur_arg = chomp(st.cur_arg),
                        !.ub = IF st.argInit THEN st.ub
                               ELSE st.ub \cup {"CurArgUninitialized"}]
    IN StoreArgument(t, t.cur_arg)

\* cur_arg[cur_cpos++] = c; cur_arg[cur_cpos] = 0;
AppendToCurArg(st, c) ==
    [st EXCEPT !.cur_arg = StoreAt(st.cur_arg, st.cur_cpos, c),
               !.cur_cpos = st.cur_cpos + 1,
               !.argInit = TRUE,
               !.ub = IF st.cur_cpos + 1 < ARGUMENT_MAX_SIZE THEN st.ub
                      ELSE st.ub \cup {"CurArgOverflow"}]

LineStep(st, c) ==
    IF st.stage = "PARSING_COMMAND" THEN
      IF c = " " \/ c = "\t"
        THEN [st EXCEPT !.command = chomp(st.command), !.cur_cpos = 0,
                        !.argc = 0, !.stage = "PARSING_ARGUMENTS"]
      ELSE IF st.cur_cpos + 1 < COMMAND_MAX_SIZE
        THEN [st EXCEPT !.command = Append(st.command, c),
                        !.cur_cpos = st.cur_cpos + 1]
      ELSE [st EXCEPT !.failed = TRUE, !.err = "CommandTooLong"]
    ELSE IF st.stage = "PARSING_ARGUMENTS" THEN
      IF c = ","
        THEN LET t == ChompAndStore(st)
                 u == [t EXCEPT !.cur_cpos = 0, !.cur_arg = <<>>,
                                !.argInit = TRUE]
             IN IF st.argc = ARGUMENT_ARRAY_MAX_SIZE
                  THEN [u EXCEPT !.failed = TRUE, !.err = "TooManyArguments"]
                  ELSE u
      ELSE IF c = " " \/ c = "\t"
        THEN st
      ELSE IF c = "="
        THEN [ChompAndStore(st) EXCEPT !.cur_cpos = 0,
                                       !.stage = "PARSING_SET_OBJVAR"]
      ELSE LET t == IF st.cur_cpos = 0
                      THEN [st EXCEPT !.argc = st.argc + 1] ELSE st
           IN IF t.cur_cpos + 1 < ARGUMENT_MAX_SIZE
                THEN AppendToCurArg(t, c)
                ELSE [t EXCEPT !.failed = TRUE, !.err = "ArgumentTooLong"]
    ELSE \* PARSING_SET_OBJVAR
      IF st.cur_cpos = 0
        THEN IF c # " " /\ c # "\t" /\ c # "&"
               THEN [st EXCEPT !.failed = TRUE, !.err = "BadObjVarStart"]
             ELSE IF c = "&" THEN AppendToCurArg(st, c)
             ELSE st
      ELSE IF c = " " \/ c = "\t" THEN st
      ELSE AppendToCurArg(st, c)

\* parse_line without the `#' test before the switch.
RECURSIVE LineScan_NoComment(_, _, _)
LineScan_NoComment(line, i, st) ==
    IF i > Len(line) \/ st.failed THEN st
    ELSE LineScan_NoComment(line, i + 1, LineStep(st, line[i]))

RECURSIVE LineScan(_, _, _)
LineScan(line, i, st) ==
    IF i > Len(line) \/ st.failed \/ line[i] = "#" THEN st
    ELSE LineScan(line, i + 1, LineStep(st, line[i]))

\* parse_line without the `argc++' for the object variable.
LineEnd_NoCaptureSlot(st) ==
    IF st.argc > 0 THEN ChompAndStore(st) ELSE st

\* After the loop: the object variable is one more argument, and the last
\* argument is stored.
LineEnd(st) ==
    IF st.stage = "PARSING_SET_OBJVAR"
      THEN IF st.argc + 1 > 0
             THEN ChompAndStore([st EXCEPT !.argc = st.argc + 1])
             ELSE [st EXCEPT !.argc = st.argc + 1]
    ELSE IF st.argc > 0 THEN ChompAndStore(st)
    ELSE st

LineReturn(st) ==
    [argc |-> IF st.failed THEN -1 ELSE st.argc, command |-> st.command,
     arguments |-> st.arguments, err |-> st.err, ub |-> st.ub]

LineScanned(st) == IF st.failed THEN LineReturn(st) ELSE LineReturn(LineEnd(st))

parse_line(line) ==
    LineScanned(LineScan(line, 1,
        [stage |-> "PARSING_COMMAND", cur_cpos |-> 0, argc |-> -1,
         cur_arg |-> <<>>, argInit |-> FALSE, command |-> <<>>,
         arguments |-> [i \in 1..ARGUMENT_ARRAY_MAX_SIZE |-> Uninit],
         failed |-> FALSE, err |-> "", ub |-> {}]))

(***************************************************************************)
(* The strings exchanged between create_object and set_variable:           *)
(* snprintf(str_idx, VARIABLE_MAX_SIZE, "%lu", n) writes the decimal       *)
(* digits of n, cut to VARIABLE_MAX_SIZE - 1 characters, and               *)
(* sscanf(value, "%zu", &i) reads an optional sign and a run of digits.    *)
(* (The strings of the model hold no leading blank, exponent, "inf",       *)
(* "nan" or hexadecimal numeral, which atof and sscanf would also read.)   *)
(***************************************************************************)
RECURSIVE Decimal(_)
Decimal(n) ==
    IF n < 10 THEN <<Digits[n + 1]>>
    ELSE Append(Decimal(n \div 10), Digits[(n % 10) + 1])

\* snprintf_lu writing the count of objects instead of the last index.
snprintf_lu_count(n) ==
    SubSeq(Decimal(n + 1), 1,
           IF Len(Decimal(n + 1)) < VARIABLE_MAX_SIZE THEN Len(Decimal(n + 1))
           ELSE VARIABLE_MAX_SIZE - 1)

snprintf_lu(n) ==
    LET d == Decimal(n)
    IN SubSeq(d, 1, IF Len(d) < VARIABLE_MAX_SIZE THEN Len(d)
                    ELSE VARIABLE_MAX_SIZE - 1)

RECURSIVE DigitRun(_, _, _)
DigitRun(s, i, acc) ==
    IF i > Len(s) \/ ~IsDigit(s[i]) THEN [value |-> acc, next |-> i]
    ELSE DigitRun(s, i + 1, acc * 10 + DigitVal(s[i]))

\* [matched, value]: matched is sscanf(...) == 1.  A `-' wraps the value
\* around 2^64; the wrapped value 2^64 - v is written -v.
sscanf_zu(value) ==
    LET signed == Len(value) > 0 /\ value[1] \in {"+", "-"}
        first == IF signed THEN 2 ELSE 1
        r == DigitRun(value, first, 0)
    IN [matched |-> r.next > first,
        value |-> IF signed /\ value[1] = "-" THEN -r.value ELSE r.value]

(***************************************************************************)
(* set_variable.  A variable is [type, name, value]: value is the double   *)
(* read by atof for `$', the coordinate for `@', the index for `&'.  The   *)
(* result is [status, err, variables, ub].                                 *)
(***************************************************************************)
VARIABLE_FIXED == "$"
VARIABLE_COORD == "@"
VARIABLE_OBJECT == "&"

\* set_variable overriding a binding of the same kind and name.
VarPut_Override(name, v, vars, ub) ==
    [status |-> "ok", err |-> "", ub |-> ub,
     variables |->
        IF \E k \in DOMAIN vars :
              vars[k].type = name[1] /\ vars[k].name = Tail(name)
          THEN [k \in DOMAIN vars |->
                  IF vars[k].type = name[1] /\ vars[k].name = Tail(name)
                    THEN [type |-> name[1], name |-> Tail(name), value |-> v]
                    ELSE vars[k]]
          ELSE Append(vars, [type |-> name[1], name |-> Tail(name),
                             value |-> v])]

VarPut(name, v, vars, ub) ==
    [status |-> "ok", err |-> "", ub |-> ub,
     variables |-> Append(vars, [type |-> name[1], name |-> Tail(name),
                                 value |-> v])]

VarStop(e, vars, ub) ==
    [status |-> "exit", err |-> e, ub |-> ub, variables |-> vars]

\* case VARIABLE_COORD: c is the result of parse_coordinates(value, NULL).
VarCoord(name, c, vars) ==
    IF c.status = "exit" THEN VarStop(c.err, vars, c.ub)
    ELSE VarPut(name, [x |-> c.x, y |-> c.y], vars, c.ub)

\* case VARIABLE_OBJECT: n is the result of sscanf(value, "%zu", &obj_index).
VarObject(name, n, vars) ==
    IF n.matched THEN VarPut(name, [index |-> n.value], vars, {})
    ELSE VarStop("BadObjectIndex", vars, {})

set_variable(name, value, vars, g) ==
    IF name = <<>> THEN VarStop("InvalidVariableType", vars, {})
    ELSE IF name[1] = VARIABLE_FIXED
      THEN VarPut(name, [fixed |-> atof(value)], vars, {})
    ELSE IF name[1] = VARIABLE_COORD
      THEN VarCoord(name, parse_coordinates(value, <<>>, g), vars)
    ELSE IF name[1] = VARIABLE_OBJECT
      THEN VarObject(name, sscanf_zu(value), vars)
    ELSE VarStop("InvalidVariableType", vars, {})

(***************************************************************************)
(* is_obj_command: the index of command in valid_objects plus 1, or -1.    *)
(***************************************************************************)
valid_objects ==
    << <<"l", "i", "n", "e">>, <<"r", "e", "c", "t">>,
       <<"c", "i", "r", "c", "l", "e">> >>

\* is_obj_command falling out of its loop into `return i + 1'.
is_obj_command_fallthrough(command) ==
    IF \E i \in 1..VALID_OBJECTS_SIZE : valid_objects[i] = command
      THEN CHOOSE i \in 1..VALID_OBJECTS_SIZE : valid_objects[i] = command
      ELSE VALID_OBJECTS_SIZE + 1

is_obj_command(command) ==
    IF \E i \in 1..VALID_OBJECTS_SIZE : valid_objects[i] = command
      THEN CHOOSE i \in 1..VALID_OBJECTS_SIZE : valid_objects[i] = command
      ELSE -1

(***************************************************************************)
(* Reading argv[i].  A slot never stored, or an index outside the array,   *)
(* is an uninitialized read: the string is then the garbage g.arg.         *)
(***************************************************************************)
ArgDefined(argv, i) ==
    i >= 0 /\ i < ARGUMENT_ARRAY_MAX_SIZE /\ argv[i + 1] # Uninit

ReadArg(argv, i, g) == IF ArgDefined(argv, i) THEN argv[i + 1] ELSE g.arg

UninitReads(argv, slots) ==
    IF \E i \in slots : ~ArgDefined(argv, i)
      THEN {"ArgvUninitialized"} ELSE {}

(***************************************************************************)
(* create_object.  An object is [type, coord_count, coord, init]; only the *)
(* TYPE_LINE branch sets coord_count and coord, for the other types they   *)
(* stay uninitialized (init = FALSE, coord_count the garbage g.count).     *)
(* The result is [status, err, objects, variables, captured, ub]:          *)
(* captured tells whether set_variable recorded the new object.            *)
(***************************************************************************)
ObjOut(status, err, objs, vars, captured, ub) ==
    [status |-> status, err |-> err, objects |-> objs, variables |-> vars,
     captured |-> captured, ub |-> ub]

\* set_variable(argv[argc - 1], str_idx) has given sv.
ObjCaptured(added, sv, ub) ==
    ObjOut(sv.status, sv.err, added, sv.variables, sv.status = "ok",
           ub \cup sv.ub)

\* if (argv[argc - 1][0] == '&') set_variable(argv[argc - 1], str_idx);
ObjCapture(last, added, vars, g, ub) ==
    IF last # <<>> /\ last[1] = "&"
      THEN ObjCaptured(added,
                       set_variable(last, snprintf_lu(Len(added) - 1), vars,
                                    g.num), ub)
      ELSE ObjOut("ok", "", added, vars, FALSE, ub)

\* objects.list[objects.count++] = obj;
ObjAppend(obj, argc, argv, objs, vars, g, ub) ==
    ObjCapture(ReadArg(argv, argc - 1, g), Append(objs, obj), vars, g,
               ub \cup UninitReads(argv, {argc - 1}))

\* parse_coordinates(&obj.coord[1], argv[1], &obj.coord[0]) has given c1.
LineSecond(type, argc, argv, objs, vars, g, c0, c1, ub) ==
    IF c1.status = "exit"
      THEN ObjOut("exit", c1.err, objs, vars, FALSE, ub \cup c1.ub)
      ELSE ObjAppend([type |-> type, coord_count |-> 2,
                      coord |-> << [x |-> c0.x, y |-> c0.y],
                                   [x |-> c1.x, y |-> c1.y] >>,
                      init |-> TRUE],
                     argc, argv, objs, vars, g, ub \cup c1.ub)

\* create_object parsing its second argument with no base.
LineFirst_NoBase(type, argc, argv, objs, vars, g, c0, ub) ==
    IF c0.status = "exit"
      THEN ObjOut("exit", c0.err, objs, vars, FALSE, ub \cup c0.ub)
      ELSE LineSecond(type, argc, argv, objs, vars, g, c0,
                      parse_coordinates(ReadArg(argv, 1, g), << >>, g.num),
                      ub \cup c0.ub \cup UninitReads(argv, {1}))

\* parse_coordinates(&obj.coord[0], argv[0], NULL) has given c0.
LineFirst(type, argc, argv, objs, vars, g, c0, ub) ==
    IF c0.status = "exit"
      THEN ObjOut("exit", c0.err, objs, vars, FALSE, ub \cup c0.ub)
      ELSE LineSecond(type, argc, argv, objs, vars, g, c0,
                      parse_coordinates(ReadArg(argv, 1, g),
                                        << [x |-> c0.x, y |-> c0.y] >>, g.num),
                      ub \cup c0.ub \cup UninitReads(argv, {1}))

create_object(type, argc, argv, objs, vars, g) ==
    IF type = TYPE_LINE
      THEN LineFirst(type, argc, argv, objs, vars, g,
                     parse_coordinates(ReadArg(argv, 0, g), <<>>, g.num),
                     UninitReads(argv, {0}))
      ELSE ObjAppend([type |-> type, coord_count |-> g.count, coord |-> << >>,
                      init |-> FALSE],
                     argc, argv, objs, vars, g, {})

(***************************************************************************)
(* parse_command.  The result is [ret, err, objects, variables, captured,  *)
(* ub]: ret is "true" or "false" (the value returned) or "exit" (the       *)
(* process ended inside the call); ub is the undefined behaviour met while *)
(* the line was processed.                                                 *)
(***************************************************************************)
SET == <<"s", "e", "t">>

CmdOut(ret, err, objs, vars, captured, ub) ==
    [ret |-> ret, err |-> err, objects |-> objs, variables |-> vars,
     captured |-> captured, ub |-> ub]

\* create_object(type, argc, argv) has given co.
CmdObject(co, ub) ==
    CmdOut(IF co.status = "ok" THEN "true" ELSE "exit", co.err, co.objects,
           co.variables, co.captured, ub \cup co.ub)

\* set_variable(argv[0], argv[1]) has given sv.
CmdSet(sv, objs, ub) ==
    CmdOut(IF sv.status = "ok" THEN "true" ELSE "exit", sv.err, objs,
           sv.variables, FALSE, ub \cup sv.ub)

\* parse_line(line, command, argv) has given tok.
CmdTokens(tok, objs, vars, g) ==
    IF tok.argc < 0
      THEN CmdOut("false", tok.err, objs, vars, FALSE, tok.ub)
    ELSE IF is_obj_command(tok.command) > 0
      THEN CmdObject(create_object(is_obj_command(tok.command), tok.argc,
                                   tok.arguments, objs, vars, g), tok.ub)
    ELSE IF tok.command = SET
      THEN CmdSet(set_variable(ReadArg(tok.arguments, 0, g),
                               ReadArg(tok.arguments, 1, g), vars, g.num),
                  objs, tok.ub \cup UninitReads(tok.arguments, {0, 1}))
    ELSE CmdOut("false", "UnknownCommand", objs, vars, FALSE, tok.ub)

\* parse_command handing every line to parse_line.
parse_command_NoSkip(line, objs, vars, g) ==
    CmdTokens(parse_line(line), objs, vars, g)

parse_command(line, objs, vars, g) ==
    IF line = <<>> \/ line[1] = "#"
      THEN CmdOut("true", "", objs, vars, FALSE, {})
      ELSE CmdTokens(parse_line(line), objs, vars, g)

(***************************************************************************)
(* The input lines of the model: the statements of the source format, one  *)
(* per kind of outcome of parse_command.                                   *)
(***************************************************************************)
L_comment == <<"#", " ", "s", "a", "m", "p", "l", "e">>
L_empty == << >>
L_line_a == <<"l", "i", "n", "e", " ", "x", "0", "m", "m", ";", "y", "0", "m", "m", ",", " ", "w", "1", "0", "m", "m", "=", "&", "a">>
L_line_h == <<"l", "i", "n", "e", " ", "x", "5", "m", "m", ";", "y", "5", "m", "m", ",", " ", "h", "2", "0", "m", "m">>
L_line_b == <<"l", "i", "n", "e", " ", "x", "1", "c", "m", ";", "y", "2", ",", " ", "x", "1", "m", ";", "y", "-", "5", " ", "=", " ", "&", "b">>
L_line_3 == <<"l", "i", "n", "e", " ", "x", "2", ";", "y", "2", ",", " ", "h", "1", "c", "m", ",", " ", "&", "a">>
L_rect == <<"r", "e", "c", "t", " ", "x", "0", "m", "m", ";", "y", "0", "m", "m", ",", " ", "x", "1", "m", "m", ";", "y", "1", "m", "m">>
L_circle == <<"c", "i", "r", "c", "l", "e", " ", "x", "0", "m", "m", ";", "y", "0", "m", "m", ",", " ", "w", "5", "m", "m", "=", "&", "c">>
L_triangle == <<"t", "r", "i", "a", "n", "g", "l", "e", " ", "x", "0", "m", "m", ";", "y", "0", "m", "m", ",", " ", "w", "5", "m", "m">>
L_set_fixed == <<"s", "e", "t", " ", "$", "s", ",", " ", "1", ".", "5">>
L_set_coord == <<"s", "e", "t", " ", "@", "p", ",", " ", "x", "1", "m", "m", ";", "y", "2", "m", "m">>
L_set_obj == <<"s", "e", "t", " ", "&", "r", ",", " ", "0">>
L_bad_unit == <<"l", "i", "n", "e", " ", "x", "0", "m", "m", ";", "y", "0", "m", "m", ",", " ", "w", "1", "0", "x", "y">>
L_bad_letter == <<"l", "i", "n", "e", " ", "x", "0", "m", "m", ";", "y", "0", "m", "m", ",", " ", "q", "5">>
L_bad_semi == <<"l", "i", "n", "e", " ", "x", "0", ";", "5", ",", " ", "w", "1">>
L_bad_numchar == <<"l", "i", "n", "e", " ", "x", "0", "m", "m", ";", "y", "0", "m", "m", ",", " ", "w", "1", "_">>
L_bad_unitchar == <<"l", "i", "n", "e", " ", "x", "0", "m", "m", ";", "y", "0", "m", "m", ",", " ", "w", "1", "m", "5">>
L_bad_tag == <<"s", "e", "t", " ", "%", "v", ",", " ", "1">>
L_bad_index == <<"s", "e", "t", " ", "&", "r", ",", " ", "x">>
L_long_command == <<"p", "o", "l", "y", "l", "i", "n", "e", "1", "0", " ", "x", "0", ";", "y", "0", ",", " ", "w", "1">>
L_bad_objvar == <<"l", "i", "n", "e", " ", "x", "0", "m", "m", ";", "y", "0", "m", "m", ",", " ", "w", "5", "m", "m", " ", "=", " ", "a">>
L_no_args == <<"l", "i", "n", "e">>

Lines ==
    {L_comment, L_empty, L_line_a, L_line_h,
     L_line_b, L_line_3, L_rect, L_circle,
     L_triangle, L_set_fixed, L_set_coord, L_set_obj,
     L_bad_unit,
     L_bad_letter, L_bad_semi, L_bad_numchar, L_bad_unitchar,
     L_bad_tag, L_bad_index, L_long_command, L_bad_objvar,
     L_no_args}

(***************************************************************************)
(* Garbage: the values an uninitialized read may give.  num is read for an *)
(* uninitialized numeral, count for an uninitialized coord_count, arg for  *)
(* an uninitialized argv slot; crash tells whether the undefined behaviour *)
(* ends the process.                                                       *)
(***************************************************************************)
NoGarbage == [num |-> <<0, 0>>, count |-> 0, arg |-> << >>, crash |-> FALSE]

Garbage ==
    {NoGarbage,
     [num |-> <<7, -3>>, count |-> 3, arg |-> <<"x", "9", ";", "y", "9">>,
      crash |-> FALSE],
     [num |-> <<0, 0>>, count |-> 3, arg |-> <<"&", "z">>, crash |-> FALSE],
     [num |-> <<0, 0>>, count |-> 0, arg |-> << >>, crash |-> TRUE]}

(***************************************************************************)
(* State.  objects and variables are the two stores; alive is FALSE once   *)
(* the process has ended; log records, for every line handed to            *)
(* parse_command, the line, its tokens (tok), what the call did (ret, err,  *)
(* ub), whether it captured the object in a variable, and the store sizes  *)
(* after it.                                                               *)
(* coordIn, coordBase, coordOut and pc are one call of parse_coordinates.  *)
(***************************************************************************)
VARIABLES objects, variables, alive, log, coordIn, coordBase, coordOut, pc,
          unitIn, unitOut, lineIn, lineOut, file, linenum, fileRet

vars == <<objects, variables, alive, log, coordIn, coordBase, coordOut, pc,
          unitIn, unitOut, lineIn, lineOut, file, linenum, fileRet>>

engine == <<objects, variables, alive, log>>
coordCall == <<coordIn, coordBase, coordOut, pc>>
unitCall == <<unitIn, unitOut>>
lineCall == <<lineIn, lineOut>>
fileCall == <<file, linenum, fileRet>>

\* No call of to_base_unit or parse_line on its own is under way.
NoUnitIn == [kind |-> "none", n |-> 0, suffix |-> << >>, text |-> << >>]
NoUnitOut == [status |-> "none", err |-> "", val |-> 0, ub |-> {}]
NoLineIn ==
    [kind |-> "none", keyword |-> << >>, args |-> << >>, name |-> << >>,
     text |-> << >>]
NoLineOut ==
    [status |-> "none", argc |-> -1, command |-> << >>, arguments |-> << >>,
     err |-> "", ub |-> {}]

NoUnitCall == unitIn = NoUnitIn /\ unitOut = NoUnitOut
NoLineCall == lineIn = NoLineIn /\ lineOut = NoLineOut

\* No call of parse_file is under way.
NoFileCall == file = << >> /\ linenum = 0 /\ fileRet = "none"

NoCoordIn == [form |-> "none", xn |-> 0, xu |-> << >>, yn |-> 0, yu |-> << >>,
              text |-> << >>]
NoCoordOut == [status |-> "none", err |-> "", x |-> 0, y |-> 0, ub |-> {}]

\* nanocad_init
nanocad_init ==
    /\ objects = << >>
    /\ variables = << >>
    /\ alive = TRUE
    /\ log = << >>

Init ==
    /\ nanocad_init
    /\ coordIn = NoCoordIn
    /\ coordBase = << >>
    /\ coordOut = NoCoordOut
    /\ pc = "idle"
    /\ NoUnitCall
    /\ NoLineCall
    /\ NoFileCall

(***************************************************************************)
(* The driver hands one more line to parse_command.                        *)
(***************************************************************************)
Indeterminate(r, objs) ==
    \/ r.ub # {}
    \/ Len(r.objects) > Len(objs) /\ ~r.objects[Len(r.objects)].init

\* What parse_line makes of the line, when parse_command gets that far.
NoTokens ==
    [argc |-> -1, command |-> << >>, arguments |-> << >>, err |-> "",
     ub |-> {}]

Tokens(l) ==
    IF l = << >> \/ l[1] = "#" THEN NoTokens ELSE parse_line(l)

\* The call has given r; undefined behaviour may also have ended the process.
Returned(l, r, crash) ==
    /\ objects' = IF crash THEN objects ELSE r.objects
    /\ variables' = IF crash THEN variables ELSE r.variables
    /\ alive' = (~crash /\ r.ret \in {"true", "false"})
    /\ log' = Append(log,
          [line |-> l, tok |-> Tokens(l),
           ret |-> IF crash THEN "crash" ELSE r.ret,
           err |-> IF crash THEN "" ELSE r.err, ub |-> r.ub,
           captured |-> ~crash /\ r.captured,
           nobj |-> IF crash THEN Len(objects) ELSE Len(r.objects),
           nvar |-> IF crash THEN Len(variables) ELSE Len(r.variables)])

Called(l, r, g) == Returned(l, r, g.crash /\ r.ub # {})

\* r0 is the call without garbage: when it read no uninitialized storage
\* it is the outcome, otherwise the outcome depends on what was read.
Attempt(l, r0) ==
    IF Indeterminate(r0, objects)
      THEN \E g \in Garbage :
             Called(l, parse_command(l, objects, variables, g), g)
      ELSE Called(l, r0, NoGarbage)

Handle(l) ==
    /\ alive
    /\ Attempt(l, parse_command(l, objects, variables, NoGarbage))

Dispatch(l) ==
    /\ Len(log) < MaxLines
    /\ Handle(l)
    /\ UNCHANGED <<coordCall, unitCall, lineCall, fileCall>>

Next == \E l \in Lines : Dispatch(l)

Spec == Init /\ [][Next]_vars

(***************************************************************************)
(* Calls of parse_coordinates on their own.  An input is [form, xn, xu,    *)
(* yn, yu, text]: the well-formed ones are built from integers and units   *)
(* (form "xy", "w" or "h"), the others carry the name of their defect.     *)
(***************************************************************************)
NumText(n) == IF n < 0 THEN <<"-">> \o Decimal(-n) ELSE Decimal(n)

MM == <<"m", "m">>
CM == <<"c", "m">>
M == <<"m">>

Units == {<< >>, MM, CM, M}
Nums == {0, 5, 10, 20, -3}

CoordIn(form, xn, xu, yn, yu, text) ==
    [form |-> form, xn |-> xn, xu |-> xu, yn |-> yn, yu |-> yu, text |-> text]

WellFormedCoords ==
    {CoordIn("xy", xn, xu, yn, yu,
             <<"x">> \o NumText(xn) \o xu \o <<";", "y">> \o NumText(yn) \o yu) :
        xn \in Nums, xu \in Units, yn \in Nums, yu \in Units}
    \cup {CoordIn("w", n, u, 0, << >>, <<"w">> \o NumText(n) \o u) :
            n \in Nums, u \in Units}
    \cup {CoordIn("h", 0, << >>, n, u, <<"h">> \o NumText(n) \o u) :
            n \in Nums, u \in Units}

Malformed(tag, text) == CoordIn(tag, 0, << >>, 0, << >>, text)

MalformedCoords ==
    {Malformed("empty", << >>),
     Malformed("x_only", <<"x", "5", "m", "m">>),
     Malformed("x_only", <<"x", "1", "0", "c", "m">>),
     Malformed("x_semi", <<"x", "5", "m", "m", ";">>),
     Malformed("semi_not_y", <<"x", "5", "m", "m", ";", "5", "m", "m">>),
     Malformed("semi_not_y", <<"x", "5", "m", "m", ";", "z", "5", "m", "m">>),
     Malformed("semi_not_y", <<"x", "5", ";", ";", "y", "5">>),
     Malformed("other_letter", <<"y", "5", "m", "m">>),
     Malformed("other_letter", <<"q", "5", "m", "m">>),
     Malformed("other_letter", <<"5", "m", "m">>),
     Malformed("other_letter", <<";", "y", "5", "m", "m">>),
     Malformed("other_letter", <<"X", "5", ";", "y", "5">>),
     Malformed("empty_length", <<"x", "5", "m", "m", ";", "y">>),
     Malformed("empty_length", <<"x", ";", "y", "5">>),
     Malformed("empty_length", <<"w">>),
     Malformed("empty_length", <<"h">>),
     Malformed("no_numeral", <<"x", "m", "m", ";", "y", "0">>),
     Malformed("no_numeral", <<"w", "c", "m">>),
     Malformed("bad_unit", <<"w", "5", "x", "y">>),
     Malformed("bad_unit", <<"h", "5", "k", "m">>),
     Malformed("bad_unit", <<"x", "5", "m", "m", ";", "y", "5", "i", "n">>),
     Malformed("bad_length", <<"w", "5", "m", "5">>),
     Malformed("bad_length", <<"h", "5", "_">>),
     Malformed("bad_length", <<"x", "5", "m", "m", ",", "y", "5", "m", "m">>),
     Malformed("bad_length", <<"w", "5", "m", "m", ";", "h", "5", "m", "m">>)}

BaseInputs ==
    {<< >>, << [x |-> 0, y |-> 0] >>, << [x |-> 10, y |-> 20] >>,
     << [x |-> -3, y |-> 4] >>}

GarbageNum == {<<0, 0>>, <<7, -3>>}

GarbageNumFor(text, base) ==
    IF parse_coordinates(text, base, <<0, 0>>).ub = {}
      THEN {<<0, 0>>} ELSE GarbageNum

InitCoord ==
    /\ nanocad_init
    /\ coordIn \in WellFormedCoords \cup MalformedCoords
    /\ coordBase \in BaseInputs
    /\ coordOut = NoCoordOut
    /\ pc = "call"
    /\ NoUnitCall
    /\ NoLineCall
    /\ NoFileCall

\* parse_coordinates(&coord, arg, base)
ParseCoordinates ==
    /\ pc = "call"
    /\ \E g \in GarbageNumFor(coordIn.text, coordBase) :
         coordOut' = parse_coordinates(coordIn.text, coordBase, g)
    /\ pc' = "parsed"
    /\ UNCHANGED <<engine, coordIn, coordBase, unitCall, lineCall, fileCall>>

\* The input is the first argument of a `line' command.
LineFirstArgument ==
    /\ pc = "call"
    /\ Handle(<<"l", "i", "n", "e", " ">> \o coordIn.text
                 \o <<",", " ", "h", "1", "c", "m">>)
    /\ pc' = "line"
    /\ UNCHANGED <<coordIn, coordBase, coordOut, unitCall, lineCall, fileCall>>

\* The input is the value of a `set @name' command.
SetCoordVariable ==
    /\ pc = "call"
    /\ Handle(<<"s", "e", "t", " ", "@", "p", ",", " ">> \o coordIn.text)
    /\ pc' = "set"
    /\ UNCHANGED <<coordIn, coordBase, coordOut, unitCall, lineCall, fileCall>>

NextCoord == ParseCoordinates \/ LineFirstArgument \/ SetCoordVariable

SpecCoord == InitCoord /\ [][NextCoord]_vars

(***************************************************************************)
(* to_base_unit on its own: one call on a text that is an integer numeral  *)
(* with a suffix of lowercase letters, or one of the other texts below.    *)
(***************************************************************************)
UnitNums == {0, 1, 5, 10, 20, 123, -3, -40}

UnitSuffixes ==
    Units \cup {<<"x">>,
                 <<"x", "y">>,
                 <<"k", "m">>,
                 <<"i", "n">>,
                 <<"m", "c">>,
                 <<"c">>,
                 <<"m", "m", "m">>,
                 <<"x", "y", "z">>,
                 <<"c", "m", "m">>,
                 <<"m", "m", "m", "m">>,
                 <<"a", "b", "c", "d", "e">>}

UnitIn(kind, n, suffix, text) ==
    [kind |-> kind, n |-> n, suffix |-> suffix, text |-> text]

NumeralsWithSuffix ==
    {UnitIn("num_unit", n, u, NumText(n) \o u) :
        n \in UnitNums, u \in UnitSuffixes}

OtherUnitText(kind, text) == UnitIn(kind, 0, << >>, text)

OtherUnitTexts ==
    {OtherUnitText("comma", <<"1", ",", "5", "m", "m">>),
     OtherUnitText("comma", <<"1", ",", "5">>),
     OtherUnitText("comma", <<",", "5">>),
     OtherUnitText("comma", <<"1", "0", ",">>),
     OtherUnitText("letter_first", <<"m", "m">>),
     OtherUnitText("letter_first", <<"c", "m">>),
     OtherUnitText("letter_first", <<"m">>),
     OtherUnitText("letter_first", <<"x", "y">>),
     OtherUnitText("char_after_unit", <<"5", "m", "5">>),
     OtherUnitText("char_after_unit", <<"5", "m", "m", "1">>),
     OtherUnitText("char_after_unit", <<"5", "m", ".">>),
     OtherUnitText("char_after_unit", <<"5", "c", "M">>),
     OtherUnitText("char_after_unit", <<"5", "m", "-">>),
     OtherUnitText("other_char", <<"5", "_">>),
     OtherUnitText("other_char", <<"5", "M">>),
     OtherUnitText("other_char", <<"5", " ", "m", "m">>),
     OtherUnitText("other_char", <<"_", "5">>),
     OtherUnitText("other_char", <<"5", ";">>),
     OtherUnitText("other_char", <<"X">>),
     OtherUnitText("empty", << >>),
     OtherUnitText("decimal", <<"1", ".", "5", "c", "m">>),
     OtherUnitText("decimal", <<"2", ".", "5">>),
     OtherUnitText("decimal", <<"+", "7", "m", "m">>),
     OtherUnitText("decimal", <<"-", "0", ".", "5", "m">>),
     OtherUnitText("decimal", <<"1", ".", "2", "5", "m">>)}

\* What an uninitialized strnum may convert to.
GarbageLong == {0, 7}

\* The call has given r; undefined behaviour may also have ended the process.
UnitOutcome(r, crash) ==
    IF crash /\ r.ub # {}
      THEN [status |-> "crash", err |-> "", val |-> 0, ub |-> r.ub]
      ELSE r

InitUnit ==
    /\ nanocad_init
    /\ coordIn = NoCoordIn
    /\ coordBase = << >>
    /\ coordOut = NoCoordOut
    /\ NoLineCall
    /\ NoFileCall
    /\ unitIn \in NumeralsWithSuffix \cup OtherUnitTexts
    /\ unitOut = NoUnitOut
    /\ pc = "unit"

\* to_base_unit(str)
ConvertUnit ==
    /\ pc = "unit"
    /\ \E g \in GarbageLong, crash \in BOOLEAN :
         unitOut' = UnitOutcome(to_base_unit(unitIn.text, g), crash)
    /\ pc' = "converted"
    /\ UNCHANGED <<engine, coordIn, coordBase, coordOut, unitIn, lineCall, fileCall>>

NextUnit == ConvertUnit

SpecUnit == InitUnit /\ [][NextUnit]_vars

(***************************************************************************)
(* parse_line on its own: one call on a line built from a keyword, a list  *)
(* of arguments and, for a capture, a name; the same line is also handed   *)
(* to parse_command.  blank is what is written around `,' and `='.         *)
(***************************************************************************)
TokKeywords == {valid_objects[1], SET, <<"p", "o", "l", "y">>}

TokArgs == {<<"x", "0", "m", "m", ";", "y", "0", "m", "m">>,
            <<"w", "1", "0", "m", "m">>}

TokNames == {<<"w", "a", "l", "l", "1">>, <<"a">>}

Blanks == {<< >>, <<" ">>, <<"\t", " ">>}

\* The lists of 1 .. ARGUMENT_ARRAY_MAX_SIZE + 1 arguments.
TokArgLists ==
    UNION {[1..n -> TokArgs] : n \in 1..(ARGUMENT_ARRAY_MAX_SIZE + 1)}

RECURSIVE JoinArgs(_, _, _)
JoinArgs(args, i, blank) ==
    IF i > Len(args) THEN << >>
    ELSE IF i = Len(args) THEN args[i]
    ELSE args[i] \o blank \o <<",">> \o blank \o JoinArgs(args, i + 1, blank)

PlainText(keyword, args, blank) ==
    keyword \o <<" ">> \o blank \o JoinArgs(args, 1, blank)

CaptureText(keyword, args, name, blank) ==
    PlainText(keyword, args, blank) \o blank \o <<"=">> \o blank
        \o <<"&">> \o name

LineIn(kind, keyword, args, name, text) ==
    [kind |-> kind, keyword |-> keyword, args |-> args, name |-> name,
     text |-> text]

PlainLines ==
    {LineIn("plain", k, a, << >>, PlainText(k, a, b)) :
        k \in TokKeywords, a \in TokArgLists, b \in Blanks}

CaptureLines ==
    {LineIn("capture", k[1], a, k[2], CaptureText(k[1], a, k[2], b)) :
        k \in TokKeywords \X TokNames, a \in TokArgLists, b \in Blanks}

\* A text of n characters.
Filler(n) == [i \in 1..n |-> "9"]

\* Lines at and over the limits of keyword, argument and name length.
LimitLine(kind, keyword, args, name) ==
    LineIn(kind, keyword, args, name,
           IF name = << >> THEN PlainText(keyword, args, <<" ">>)
           ELSE CaptureText(keyword, args, name, <<" ">>))

LimitLines ==
    {LimitLine("limit", Filler(n), <<<<"w", "1">>, <<"h", "1">>>>, << >>) :
        n \in {COMMAND_MAX_SIZE - 1, COMMAND_MAX_SIZE, COMMAND_MAX_SIZE + 1}}
    \cup {LimitLine("limit", SET, <<<<"w", "1">>, Filler(n)>>, << >>) :
        n \in {ARGUMENT_MAX_SIZE - 1, ARGUMENT_MAX_SIZE,
               ARGUMENT_MAX_SIZE + 1}}
    \cup {LimitLine("limit", SET, <<Filler(n), <<"h", "1">>>>, <<"a">>) :
        n \in {ARGUMENT_MAX_SIZE - 1, ARGUMENT_MAX_SIZE}}
    \cup {LimitLine("limit", SET, <<<<"w", "1">>, <<"h", "1">>>>, Filler(n)) :
        n \in {ARGUMENT_MAX_SIZE - 2, ARGUMENT_MAX_SIZE - 1,
               ARGUMENT_MAX_SIZE + 1}}

\* Lines whose text after `=' is not a name alone; name is what stands
\* between `&' and the next blank.
EqualsLine(kind, name, tail) ==
    LineIn(kind, valid_objects[1], <<<<"x", "1", ";", "y", "1">>, <<"w", "5">>>>,
           name,
           valid_objects[1] \o <<" ", "x", "1", ";", "y", "1", ",", " ",
                                  "w", "5", " ", "=">> \o tail)

EqualsLines ==
    {EqualsLine("bare_equals", << >>, << >>),
     EqualsLine("bare_equals", << >>, <<" ">>),
     EqualsLine("bare_equals", << >>, <<" ", "\t">>),
     EqualsLine("name_blank", <<"a">>, <<" ", "&", "a", " ", "b">>),
     EqualsLine("name_blank", <<"a">>, <<"&", "a", "\t", "b", "c">>),
     EqualsLine("name_blank", <<"n", "1">>, <<" ", "&", "n", "1", " ", "&", "z">>),
     EqualsLine("name_trailing", <<"a">>, <<" ", "&", "a", " ">>),
     EqualsLine("amp_blank", << >>, <<" ", "&", " ", "a">>),
     EqualsLine("not_a_name", << >>, <<" ", "a">>),
     EqualsLine("not_a_name", << >>, <<"w", "1">>),
     EqualsLine("bare_amp", << >>, <<" ", "&">>)}

\* Lines X#Y: X ends in the keyword or in the arguments, Y is any text.
CommentTails ==
    {<< >>, <<" ", "n", "o", "t", "e">>, <<",", " ", "h", "9">>,
     <<" ", "=", " ", "&", "z">>, <<"#", "x", "#">>}

CommentLines ==
    {LineIn("comment", k, a, << >>, PlainText(k, a, b) \o b \o <<"#">> \o y) :
        k \in TokKeywords, a \in TokArgLists, b \in Blanks,
        y \in CommentTails}
    \cup {LineIn("comment_keyword", k, << >>, << >>, k \o <<"#">> \o y) :
        k \in TokKeywords, y \in CommentTails}
    \cup {LineIn("comment_keyword", k, << >>, << >>,
                  k \o <<" ">> \o <<"#">> \o y) :
        k \in TokKeywords, y \in CommentTails}

\* Lines with `,' or `=' before any argument, with an empty field, with a
\* trailing `,', and with fewer arguments than their command reads; args
\* holds the fields as they are written.
OddLine(kind, keyword, args, text) ==
    LineIn(kind, keyword, args, << >>, keyword \o <<" ">> \o text)

OddLines ==
    {OddLine("separator_first", valid_objects[1], << >>, <<",", " ", "x", "1">>),
     OddLine("separator_first", valid_objects[1], << >>, <<" ", ",">>),
     OddLine("separator_first", valid_objects[1], << >>, <<"=", "&", "a">>),
     OddLine("separator_first", SET, << >>, <<" ", "=", " ", "&", "a">>),
     OddLine("separator_first", SET, << >>, <<",", "$", "s", ",", "1">>),
     OddLine("empty_field", valid_objects[1],
             << <<"a">>, << >>, <<"b">> >>, <<"a", ",", ",", "b">>),
     OddLine("empty_field", valid_objects[1],
             << <<"x", "1", ";", "y", "1">>, << >>, <<"w", "5">> >>,
             <<"x", "1", ";", "y", "1", ",", " ", ",", "w", "5">>),
     OddLine("empty_field", SET,
             << <<"$", "s">>, << >>, << >>, <<"1">> >>,
             <<"$", "s", ",", ",", ",", "1">>),
     OddLine("trailing_comma", valid_objects[1],
             << <<"x", "1", ";", "y", "1">>, <<"w", "5">> >>,
             <<"x", "1", ";", "y", "1", ",", " ", "w", "5", ",">>),
     OddLine("trailing_comma", SET,
             << <<"$", "s">>, <<"1">> >>, <<"$", "s", ",", "1", ",", " ">>),
     OddLine("short", SET, << <<"$", "s">> >>, <<"$", "s">>),
     OddLine("short", SET, << >>, << >>),
     OddLine("short", valid_objects[1], << >>, <<" ">>),
     OddLine("short", valid_objects[2], << >>, << >>),
     OddLine("short", valid_objects[1],
             << <<"x", "0", "m", "m", ";", "y", "0", "m", "m">> >>,
             <<"x", "0", "m", "m", ";", "y", "0", "m", "m">>)}

\* The two lines the format description tokenizes.
ExampleArgs == <<<<"x", "0", "m", "m", ";", "y", "0", "m", "m">>,
                 <<"w", "1", "0", "m", "m">>>>

ExamplePlain ==
    valid_objects[1] \o <<" ">> \o ExampleArgs[1] \o <<",", " ">>
        \o ExampleArgs[2]

ExampleCapture ==
    ExamplePlain \o <<" ", "=", " ", "&", "w", "a", "l", "l", "1">>

ExampleLines ==
    {LineIn("plain", valid_objects[1], ExampleArgs, << >>, ExamplePlain),
     LineIn("capture", valid_objects[1], ExampleArgs,
            <<"w", "a", "l", "l", "1">>, ExampleCapture)}

\* The call has given r; undefined behaviour may also have ended the process.
LineOutcome(r, crash) ==
    IF crash /\ r.ub # {}
      THEN [status |-> "crash", argc |-> -1, command |-> << >>,
            arguments |-> << >>, err |-> "", ub |-> r.ub]
      ELSE [status |-> IF r.argc >= 0 THEN "ok" ELSE "fail", argc |-> r.argc,
            command |-> r.command, arguments |-> r.arguments, err |-> r.err,
            ub |-> r.ub]

InitLine ==
    /\ nanocad_init
    /\ coordIn = NoCoordIn
    /\ coordBase = << >>
    /\ coordOut = NoCoordOut
    /\ NoUnitCall
    /\ lineIn \in PlainLines \cup CaptureLines \cup ExampleLines
                  \cup LimitLines \cup EqualsLines \cup CommentLines
                  \cup OddLines
    /\ lineOut = NoLineOut
    /\ NoFileCall
    /\ pc = "tokenize"

\* parse_line(line, command, argv)
TokenizeLine ==
    /\ pc = "tokenize"
    /\ \E crash \in BOOLEAN :
         lineOut' = LineOutcome(parse_line(lineIn.text), crash)
    /\ pc' = "tokenized"
    /\ UNCHANGED <<engine, coordIn, coordBase, coordOut, unitCall, lineIn, fileCall>>

\* parse_command(line)
DispatchLine ==
    /\ pc = "tokenize"
    /\ Handle(lineIn.text)
    /\ pc' = "dispatched"
    /\ UNCHANGED <<coordIn, coordBase, coordOut, unitCall, lineCall, fileCall>>

NextLine == TokenizeLine \/ DispatchLine

SpecLine == InitLine /\ [][NextLine]_vars

(***************************************************************************)
(* parse_file: the lines of one file, dispatched in turn.  A file is the   *)
(* sequence of what getline reads from it: each line with its newline,     *)
(* the last one with or without.                                           *)
(***************************************************************************)
NL == "\n"

FileLines ==
    {L_comment, L_empty, L_line_a, L_set_fixed, L_triangle, L_long_command,
     L_bad_unit}

FileTexts ==
    UNION {[1..n -> FileLines] : n \in 0..MaxLines}

Files ==
    {[i \in DOMAIN t |-> t[i] \o <<NL>>] : t \in FileTexts}
    \cup {[i \in DOMAIN t |->
              IF i = Len(t) THEN t[i] ELSE t[i] \o <<NL>>] :
          t \in {u \in FileTexts : u # << >> /\ u[Len(u)] # << >>}}

\* line[read - 1] = '\0' when it is the newline
StripNewline(raw) ==
    IF raw[Len(raw)] = NL THEN SubSeq(raw, 1, Len(raw) - 1) ELSE raw

InitFile ==
    /\ nanocad_init
    /\ coordIn = NoCoordIn
    /\ coordBase = << >>
    /\ coordOut = NoCoordOut
    /\ NoUnitCall
    /\ NoLineCall
    /\ file \in Files
    /\ linenum = 0
    /\ fileRet = "none"
    /\ pc = "open"

\* fopen gives a stream
OpenFile ==
    /\ pc = "open"
    /\ pc' = "read"
    /\ linenum' = 1
    /\ UNCHANGED <<engine, coordIn, coordBase, coordOut, unitCall, lineCall,
                   file, fileRet>>

\* fopen gives NULL
OpenFails ==
    /\ pc = "open"
    /\ pc' = "returned"
    /\ fileRet' = "false"
    /\ UNCHANGED <<engine, coordIn, coordBase, coordOut, unitCall, lineCall,
                   file, linenum>>

\* The first getline is given the uninitialized `line': it may end the
\* process there.
GetlineCrash ==
    /\ pc = "read"
    /\ alive
    /\ linenum = 1
    /\ log = << >>
    /\ alive' = FALSE
    /\ pc' = "crashed"
    /\ UNCHANGED <<objects, variables, log, coordIn, coordBase, coordOut,
                   unitCall, lineCall, fileCall>>

\* parse_file going on with the next line after a false.
AfterCommand_Continue(ret) ==
    /\ linenum' = linenum + 1
    /\ pc' = pc
    /\ fileRet' = fileRet

\* What parse_file does with the result of parse_command.
AfterCommand(ret) ==
    IF ret = "false"
      THEN /\ fileRet' = "false"
           /\ pc' = "returned"
           /\ linenum' = linenum
      ELSE /\ linenum' = linenum + 1
           /\ pc' = pc
           /\ fileRet' = fileRet

\* One turn of the loop: getline, the newline, parse_command.
ReadLine ==
    /\ pc = "read"
    /\ linenum <= Len(file)
    /\ Handle(StripNewline(file[linenum]))
    /\ AfterCommand(log'[Len(log')].ret)
    /\ UNCHANGED <<coordIn, coordBase, coordOut, unitCall, lineCall, file>>

\* getline gives -1: fclose, free, return true
EndOfFile ==
    /\ pc = "read"
    /\ alive
    /\ linenum > Len(file)
    /\ pc' = "returned"
    /\ fileRet' = "true"
    /\ UNCHANGED <<engine, coordIn, coordBase, coordOut, unitCall, lineCall,
                   file, linenum>>

NextFile == OpenFile \/ OpenFails \/ GetlineCrash \/ ReadLine \/ EndOfFile

SpecFile == InitFile /\ [][NextFile]_vars

(***************************************************************************)
(* Vocabulary of the properties.                                           *)
(***************************************************************************)
LINE == <<"l", "i", "n", "e">>
RECT == <<"r", "e", "c", "t">>
CIRCLE == <<"c", "i", "r", "c", "l", "e">>

\* What the tokenizer made of the i-th line handed to parse_command.
Tok(i) == log[i].tok

\* The i-th line went through the tokenizer, which accepted it, and its
\* processing met no undefined behaviour.
Tokenized(i) ==
    /\ log[i].tok.argc >= 0
    /\ log[i].ub = {}

\* Store sizes before the i-th line.
PrevObj(i) == IF i = 1 THEN 0 ELSE log[i - 1].nobj
PrevVar(i) == IF i = 1 THEN 0 ELSE log[i - 1].nvar

Point(x, y) == [x |-> x, y |-> y]
LineObj(p1, p2) ==
    [type |-> 1, coord_count |-> 2, coord |-> <<p1, p2>>, init |-> TRUE]
ObjectRef(name, index) ==
    [type |-> "&", name |-> name, value |-> [index |-> index]]

\* The length n with unit u, in millimetres.
RefConvert(n, u) ==
    IF u = M THEN 1000 * n ELSE IF u = CM THEN 10 * n ELSE n

(***************************************************************************)
(* C1.  A `line A, B' command that parse_command accepts appends exactly   *)
(* one Line object of two points: point 1 is A parsed with no base, point  *)
(* 2 is B parsed with point 1 as base.  The source `# sample',             *)
(* `line x0mm;y0mm, w10mm=&a', `line x5mm;y5mm, h20mm' leaves the objects  *)
(* [Line (0,0)-(10,0), Line (5,5)-(5,25)] and the variable a ->            *)
(* ObjectRef(0).                                                           *)
(***************************************************************************)
C1_Second(p1, c1) == LineObj(p1, Point(c1.x, c1.y))

C1_First(b, c0) ==
    C1_Second(Point(c0.x, c0.y),
              parse_coordinates(b, << Point(c0.x, c0.y) >>, <<0, 0>>))

C1_Expected(a, b) == C1_First(b, parse_coordinates(a, << >>, <<0, 0>>))

C1_Sample ==
    /\ Len(log) = 3
    /\ log[1].line = L_comment
    /\ log[2].line = L_line_a
    /\ log[3].line = L_line_h

C1_LineObject ==
    /\ \A i \in DOMAIN log :
         (/\ Tokenized(i)
          /\ Tok(i).command = LINE
          /\ Tok(i).argc >= 2
          /\ log[i].ret = "true")
         => /\ log[i].nobj = PrevObj(i) + 1
            /\ objects[log[i].nobj] =
                 C1_Expected(Tok(i).arguments[1], Tok(i).arguments[2])
    /\ C1_Sample
         => /\ \A i \in 1..3 : log[i].ret = "true"
            /\ objects = << LineObj(Point(0, 0), Point(10, 0)),
                            LineObj(Point(5, 5), Point(5, 25)) >>
            /\ variables = << ObjectRef(<<"a">>, 0) >>

C1_Witness ==
    /\ C1_Sample
    /\ Len(objects) = 2
    /\ objects[2].coord[2] = Point(5, 25)
    /\ Len(variables) = 1

(***************************************************************************)
(* C2.  The object store holds one object per accepted `line' command, and *)
(* nothing else: after the i-th line its length is the number of accepted  *)
(* `line' commands among the first i lines (so the k-th one sits at index  *)
(* k-1), whatever other lines came in between.                             *)
(***************************************************************************)
C2_AcceptedLines(i) ==
    {j \in 1..i : /\ Tokenized(j)
                  /\ Tok(j).command = LINE
                  /\ log[j].ret = "true"}

C2_OneObjectPerLineCommand ==
    \A i \in DOMAIN log : log[i].nobj = Cardinality(C2_AcceptedLines(i))

(***************************************************************************)
(* C3.  After an accepted object command whose final argument begins with  *)
(* `&', exactly one binding has been appended: an ObjectRef named by that  *)
(* argument without the `&', whose index is the position of the object the *)
(* same command created; and every ObjectRef recorded by capture is        *)
(* smaller than the length of the object store.                            *)
(***************************************************************************)
C3_FinalArg(i) == Tok(i).arguments[Tok(i).argc]

C3_Captures(i) ==
    /\ Tokenized(i)
    /\ Tok(i).command \in {LINE, RECT, CIRCLE}
    /\ Tok(i).argc >= 1
    /\ Tok(i).argc <= ARGUMENT_ARRAY_MAX_SIZE
    /\ C3_FinalArg(i) # << >>
    /\ C3_FinalArg(i)[1] = "&"
    /\ log[i].ret = "true"

C3_CaptureBinding ==
    /\ \A i \in DOMAIN log :
         C3_Captures(i)
         => /\ log[i].captured
            /\ log[i].nobj = PrevObj(i) + 1
            /\ log[i].nvar = PrevVar(i) + 1
            /\ variables[log[i].nvar] =
                 ObjectRef(Tail(C3_FinalArg(i)), log[i].nobj - 1)
    /\ \A i \in DOMAIN log :
         log[i].captured
         => /\ variables[log[i].nvar].type = "&"
            /\ variables[log[i].nvar].value.index = log[i].nobj - 1
            /\ variables[log[i].nvar].value.index < Len(objects)

C3_Witness ==
    /\ Len(log) = 2
    /\ log[1].line = L_line_h
    /\ log[2].line = L_line_b
    /\ log[2].captured
    /\ variables = << ObjectRef(<<"b">>, 1) >>
    /\ Len(objects) = 2

(***************************************************************************)
(* C4.  A `rect' or `circle' line fails and leaves the object store as it  *)
(* was; no object with uninitialized fields is ever in the store.          *)
(***************************************************************************)
C4_UnsupportedKindRejected ==
    /\ \A i \in DOMAIN log :
         (Tokenized(i) /\ Tok(i).command \in {RECT, CIRCLE})
         => /\ log[i].ret = "false"
            /\ log[i].nobj = PrevObj(i)
    /\ \A k \in DOMAIN objects : objects[k].init

(***************************************************************************)
(* C5.  A line that the tokenizer accepts and whose keyword is none of     *)
(* line, rect, circle, set makes parse_command fail with the unknown       *)
(* command error, and neither store is changed by it.                      *)
(***************************************************************************)
C5_UnknownKeyword(e) ==
    /\ e.tok.argc >= 0
    /\ e.ub = {}
    /\ e.tok.command \notin {LINE, RECT, CIRCLE, SET}

C5_Failed(e) ==
    /\ e.ret = "false"
    /\ e.err = "UnknownCommand"
    /\ ~e.captured

C5_UnknownCommand ==
    [][(/\ Len(log') = Len(log) + 1
        /\ C5_UnknownKeyword(log'[Len(log')]))
       => /\ C5_Failed(log'[Len(log')])
          /\ objects' = objects
          /\ variables' = variables
          /\ alive']_vars

C5_Witness ==
    /\ Len(log) = 2
    /\ log[1].line = L_line_a
    /\ log[2].line = L_triangle
    /\ log[2].err = "UnknownCommand"
    /\ Len(objects) = 1
    /\ Len(variables) = 1

(***************************************************************************)
(* C6.  Every error is handed back to the caller as a failure of           *)
(* parse_command: a line that raises an error returns false and the        *)
(* process is still running afterwards.                                    *)
(***************************************************************************)
C6_ErrorsAreReturned ==
    \A i \in DOMAIN log :
        log[i].err # ""
        => /\ log[i].ret = "false"
           /\ (i = Len(log) => alive)

(***************************************************************************)
(* C7.  A failing line stops processing and leaves in place what the       *)
(* earlier lines put into the stores: the stores after it are the stores   *)
(* before it, and they are still there for the caller to use.              *)
(***************************************************************************)
C7_FailureKeepsEarlierEffects ==
    [][(/\ Len(log') = Len(log) + 1
        /\ log'[Len(log')].ret # "true")
       => /\ objects' = objects
          /\ variables' = variables
          /\ alive']_vars

(***************************************************************************)
(* C8.  As the specification states it: parsing w<len> or h<len> with no   *)
(* base coordinate fails, also as the first argument of `line' and as the  *)
(* value of `set @name'.                                                   *)
(***************************************************************************)
C8_Relative == coordIn.form \in {"w", "h"}

C8_Origin ==
    IF coordIn.form = "w"
      THEN Point(RefConvert(coordIn.xn, coordIn.xu), 0)
      ELSE Point(0, RefConvert(coordIn.yn, coordIn.yu))

C9_Expected ==
    IF coordIn.form = "xy"
      THEN Point(RefConvert(coordIn.xn, coordIn.xu),
                 RefConvert(coordIn.yn, coordIn.yu))
    ELSE IF coordIn.form = "w"
      THEN Point(coordBase[1].x + RefConvert(coordIn.xn, coordIn.xu),
                 coordBase[1].y)
    ELSE Point(coordBase[1].x, coordBase[1].y + RefConvert(coordIn.yn, coordIn.yu))

C9_Got == Point(coordOut.x, coordOut.y)

C9_CoordinateValues ==
    pc = "parsed"
    => /\ (coordIn.form = "xy" \/ (coordIn.form \in {"w", "h"} /\ coordBase # << >>))
            => /\ coordOut.status = "ok"
               /\ coordOut.ub = {}
               /\ C9_Got = C9_Expected
       /\ coordIn.text = <<"x", "1", "0", "m", "m", ";", "y", "2", "0", "m", "m">>
            => C9_Got = Point(10, 20)
       /\ (coordIn.text = <<"w", "5", "m", "m">> /\ coordBase = << Point(10, 20) >>)
            => C9_Got = Point(15, 20)
       /\ (coordIn.text = <<"h", "5", "m", "m">> /\ coordBase = << Point(10, 20) >>)
            => C9_Got = Point(10, 25)

C9_Witness ==
    /\ pc = "parsed"
    /\ coordIn.text = <<"h", "5", "m", "m">>
    /\ coordBase = << Point(10, 20) >>
    /\ C9_Got = Point(10, 25)

(***************************************************************************)
(* C10.  Only x<len>;y<len>, w<len> and h<len> are coordinates: an empty   *)
(* argument, an x<len> with no ;y<len> after it, a `;' not followed by     *)
(* `y', and any other leading character all make parse_coordinates fail.   *)
(***************************************************************************)
C10_OnlyThreeForms ==
    (/\ pc = "parsed"
     /\ coordIn.form \in {"empty", "x_only", "x_semi", "semi_not_y",
                           "other_letter"})
    => coordOut.status = "exit"

(***************************************************************************)
(* C11.  For an integer numeral n, to_base_unit gives n for `n' and        *)
(* `nmm', 10*n for `ncm', 1000*n for `nm', and fails with the invalid      *)
(* unit error for every other suffix of lowercase letters, of any length.  *)
(***************************************************************************)
C11_UnitConversion ==
    (pc = "converted" /\ unitIn.kind = "num_unit")
    => IF unitIn.suffix \in Units
         THEN /\ unitOut.status = "ok"
              /\ unitOut.val = RefConvert(unitIn.n, unitIn.suffix)
         ELSE /\ unitOut.status = "exit"
              /\ unitOut.err = "InvalidUnit"

(***************************************************************************)
(* C20.  to_base_unit rejects every text outside <numeral><unit?>: a       *)
(* character other than a digit, `+', `-', `.' in the numeral (a `,' for   *)
(* one), a lowercase letter with no numeral character before it, and any   *)
(* character other than a lowercase letter once the unit has started.      *)
(***************************************************************************)
C20_OutsideGrammarRejected ==
    (/\ pc = "converted"
     /\ unitIn.kind \in {"comma", "letter_first", "char_after_unit",
                          "other_char"})
    => /\ unitOut.status = "exit"
       /\ unitOut.err \in {"InvalidNumberChar", "InvalidUnitChar",
                            "InvalidUnit"}

(***************************************************************************)
(* C12.  For a line `<keyword> <a1>, ..., <an>', optionally followed by    *)
(* `= &<name>', with blanks allowed around `,' and `=', and within the     *)
(* limits of the tokenizer, parse_line returns the keyword and a1..an in   *)
(* order, followed by `&<name>' as one more argument when the suffix is    *)
(* there.  `line x0mm;y0mm, w10mm = &wall1' gives line and x0mm;y0mm,      *)
(* w10mm, &wall1.                                                          *)
(***************************************************************************)
C12_Expected ==
    IF lineIn.name = << >> THEN lineIn.args
    ELSE Append(lineIn.args, <<"&">> \o lineIn.name)

C12_WithinLimits ==
    /\ Len(lineIn.keyword) < COMMAND_MAX_SIZE
    /\ \A i \in DOMAIN C12_Expected : Len(C12_Expected[i]) < ARGUMENT_MAX_SIZE
    /\ Len(C12_Expected) <= ARGUMENT_ARRAY_MAX_SIZE

C12_TokenizerOutput ==
    /\ (/\ pc = "tokenized"
        /\ lineIn.kind \in {"plain", "capture", "limit"}
        /\ C12_WithinLimits)
       => /\ lineOut.status = "ok"
          /\ lineOut.ub = {}
          /\ lineOut.command = lineIn.keyword
          /\ lineOut.argc = Len(C12_Expected)
          /\ SubSeq(lineOut.arguments, 1, lineOut.argc) = C12_Expected
    /\ (pc = "tokenized" /\ lineIn.text = ExampleCapture)
       => /\ lineOut.command = <<"l", "i", "n", "e">>
          /\ lineOut.argc = 3
          /\ lineOut.arguments[1] = <<"x", "0", "m", "m", ";", "y", "0", "m", "m">>
          /\ lineOut.arguments[2] = <<"w", "1", "0", "m", "m">>
          /\ lineOut.arguments[3] = <<"&", "w", "a", "l", "l", "1">>
    /\ (pc = "tokenized" /\ lineIn.text = ExamplePlain)
       => /\ lineOut.command = <<"l", "i", "n", "e">>
          /\ lineOut.argc = 2

C12_Witness ==
    /\ pc = "tokenized"
    /\ lineIn.text = ExampleCapture
    /\ lineOut.argc = 3
    /\ lineOut.arguments[3] = <<"&", "w", "a", "l", "l", "1">>

(***************************************************************************)
(* C18.  When the keyword, an argument (the `&name' after `=' included) or *)
(* the number of arguments (that capture argument included) exceeds its    *)
(* maximum, parse_line fails; it never returns more than                   *)
(* ARGUMENT_ARRAY_MAX_SIZE arguments, nor an argument of ARGUMENT_MAX_SIZE *)
(* or more characters.                                                     *)
(***************************************************************************)
C18_Structured == lineIn.kind \in {"plain", "capture", "limit"}

C18_LimitsEnforced ==
    pc = "tokenized"
    => /\ (C18_Structured /\ ~C12_WithinLimits) => lineOut.status = "fail"
       /\ lineOut.status = "ok"
            => /\ lineOut.argc <= ARGUMENT_ARRAY_MAX_SIZE
               /\ \A i \in 1..lineOut.argc :
                    Len(lineOut.arguments[i]) < ARGUMENT_MAX_SIZE

(***************************************************************************)
(* C19.  When parse_line succeeds on a line with `=' in its argument       *)
(* section, the last argument is `&' and the name that follows the `=', up *)
(* to the next blank; a line that ends in a bare `=' gets no trailing      *)
(* argument.                                                               *)
(***************************************************************************)
C19_Last == lineOut.arguments[lineOut.argc]

C19_CaptureArgument ==
    (/\ pc = "tokenized"
     /\ lineOut.status = "ok"
     /\ lineOut.argc \in 1..ARGUMENT_ARRAY_MAX_SIZE)
    => /\ lineIn.kind \in {"capture", "name_blank", "name_trailing"}
            => C19_Last = <<"&">> \o lineIn.name
       /\ lineIn.kind = "bare_equals" => lineOut.argc = Len(lineIn.args)

(***************************************************************************)
(* C13.  A line that is empty or starts with `#' is accepted: parse_command *)
(* returns true and neither store changes.                                 *)
(***************************************************************************)
C13_Skipped(e) == e.line = << >> \/ e.line[1] = "#"

C13_CommentOrEmpty ==
    [][(/\ Len(log') = Len(log) + 1
        /\ C13_Skipped(log'[Len(log')]))
       => /\ log'[Len(log')].ret = "true"
          /\ log'[Len(log')].err = ""
          /\ objects' = objects
          /\ variables' = variables
          /\ alive']_vars

C13_Witness ==
    /\ Len(log) = 3
    /\ log[1].line = L_line_a
    /\ log[2].line = L_comment
    /\ log[3].line = L_empty
    /\ log[3].ret = "true"
    /\ Len(objects) = 1
    /\ Len(variables) = 1

(***************************************************************************)
(* C14.  set_variable(raw_name, raw_value): when raw_name starts with `$', *)
(* `@' or `&' exactly one binding is appended, of that kind, named by      *)
(* raw_name without its first character; when it starts with anything      *)
(* else the call fails with the variable type error and the store is       *)
(* unchanged.                                                              *)
(***************************************************************************)
C14_RawName(i) == Tok(i).arguments[1]

C14_SetByTag ==
    \A i \in DOMAIN log :
        (Tokenized(i) /\ Tok(i).command = SET /\ Tok(i).argc >= 2)
        => IF C14_RawName(i)[1] \in {"$", "@", "&"}
             THEN log[i].ret = "true"
                  => /\ log[i].nvar = PrevVar(i) + 1
                     /\ variables[log[i].nvar].type = C14_RawName(i)[1]
                     /\ variables[log[i].nvar].name = Tail(C14_RawName(i))
             ELSE /\ log[i].ret = "false"
                  /\ log[i].err = "InvalidVariableType"
                  /\ log[i].nvar = PrevVar(i)
                  /\ (i = Len(log) => alive)

(***************************************************************************)
(* C15.  The variable store only grows at its end: no step changes or      *)
(* removes a binding, and every successful set, also of a name that is     *)
(* already bound, makes the store one longer with the new binding last.    *)
(***************************************************************************)
C15_SetDone(e) ==
    /\ e.ret = "true"
    /\ e.ub = {}
    /\ e.tok.argc >= 2
    /\ e.tok.command = SET

C15_AppendOnly ==
    [][/\ Len(variables') >= Len(variables)
       /\ SubSeq(variables', 1, Len(variables)) = variables
       /\ (Len(log') = Len(log) + 1 /\ C15_SetDone(log'[Len(log')]))
            => /\ Len(variables') = Len(variables) + 1
               /\ variables'[Len(variables')].type =
                      log'[Len(log')].tok.arguments[1][1]
               /\ variables'[Len(variables')].name =
                      Tail(log'[Len(log')].tok.arguments[1])
       /\ (Len(log') = Len(log) + 1 /\ log'[Len(log')].captured)
            => Len(variables') = Len(variables) + 1]_vars

C15_Witness ==
    /\ Len(log) = 3
    /\ log[1].line = L_set_coord
    /\ log[2].line = L_set_coord
    /\ log[3].line = L_set_fixed
    /\ Len(variables) = 3
    /\ variables[1] = variables[2]
    /\ variables[1].name = <<"p">>
    /\ variables[3].name = <<"s">>

(***************************************************************************)
(* C16.  A `line' whose argument list holds fewer than two coordinates is  *)
(* rejected: parse_command returns false and no object is appended.        *)
(***************************************************************************)
C16_LineNeedsTwoCoordinates ==
    (/\ pc = "dispatched"
     /\ lineIn.kind \in {"plain", "capture"}
     /\ lineIn.keyword = LINE
     /\ Len(lineIn.args) < 2)
    => /\ log[1].ret = "false"
       /\ objects = << >>

(***************************************************************************)
(* C17.  Every object in the store has a defined number of points, the     *)
(* arity of its kind (2 for a line), and that many points.                 *)
(***************************************************************************)
C17_ObjectsComplete ==
    \A k \in DOMAIN objects :
        /\ objects[k].init
        /\ objects[k].coord_count = 2
        /\ Len(objects[k].coord) = objects[k].coord_count

(***************************************************************************)
(* C21.  Comment truncation: for a text X without `#' that ends in the     *)
(* keyword or in the arguments, and any text Y, parse_line returns for     *)
(* X#Y the keyword and the arguments it returns for X alone.               *)
(***************************************************************************)
C21_BeforeHash ==
    LET t == lineIn.text
        k == CHOOSE k \in DOMAIN t :
                 t[k] = "#" /\ \A j \in 1..(k - 1) : t[j] # "#"
    IN  SubSeq(t, 1, k - 1)

C21_CommentTruncates ==
    (/\ pc = "tokenized"
     /\ lineIn.kind \in {"comment", "comment_keyword"}
     /\ lineOut.status # "crash")
    => /\ lineOut = LineOutcome(parse_line(C21_BeforeHash), FALSE)
       /\ (/\ lineIn.kind = "comment"
           /\ Len(lineIn.args) \in 1..ARGUMENT_ARRAY_MAX_SIZE)
          => /\ lineOut.status = "ok"
             /\ lineOut.command = lineIn.keyword
             /\ lineOut.argc = Len(lineIn.args)
             /\ SubSeq(lineOut.arguments, 1, lineOut.argc) = lineIn.args

C21_Witness ==
    /\ pc = "tokenized"
    /\ lineIn.kind = "comment"
    /\ Len(lineIn.args) = 2
    /\ \E k \in DOMAIN lineIn.text :
          /\ lineIn.text[k] = "#"
          /\ SubSeq(lineIn.text, k + 1, Len(lineIn.text)) = <<",", " ", "h", "9">>
    /\ lineOut.status = "ok"
    /\ lineOut.argc = 2
    /\ lineOut.arguments[2] = lineIn.args[2]

(***************************************************************************)
(* C22.  Whenever parse_line stores an argument at `,' or `=', an argument *)
(* has been started (argc >= 1): no store goes to a slot below the         *)
(* argument array, also when `,' or `=' comes right after the keyword.     *)
(***************************************************************************)
C22_StoresInsideArray ==
    pc = "tokenized" => "ArgumentSlotBelowArray" \notin lineOut.ub

(***************************************************************************)
(* C23.  Every argument parse_line stores keeps its slot: an argument      *)
(* stored at a `,' is not overwritten by a later store, so a line with an  *)
(* empty field or a trailing `,' still returns its first argument first    *)
(* and the arguments before a trailing `,' as they are written.            *)
(***************************************************************************)
C23_ArgumentsKeepTheirSlot ==
    (/\ pc = "tokenized"
     /\ lineIn.kind \in {"empty_field", "trailing_comma"}
     /\ lineOut.status = "ok")
    => /\ lineOut.arguments[1] = lineIn.args[1]
       /\ lineIn.kind = "trailing_comma"
          => \A i \in DOMAIN lineIn.args :
                 lineOut.arguments[i] = lineIn.args[i]

(***************************************************************************)
(* C24.  For a line parse_line accepts with argc arguments, parse_command  *)
(* and create_object read only the argument slots 0..argc-1: `set' and     *)
(* `line' read two arguments only when argc >= 2, and the capture test     *)
(* reads the final argument only when argc >= 1.                           *)
(***************************************************************************)
C24_ReadsBelowArgc ==
    (/\ pc = "dispatched"
     /\ Tok(1).argc >= 0
     /\ Tok(1).ub = {})
    => "ArgvUninitialized" \notin log[1].ub

(***************************************************************************)
(* C25.  parse_file dispatches the lines in file order, one dispatch per   *)
(* line, and stops at the first line whose dispatch returns false: no      *)
(* later line is dispatched, the stores keep the effects of the lines      *)
(* before it and parse_file returns false; it returns true only when       *)
(* every line of the file was dispatched and returned true.                *)
(***************************************************************************)
C25_InFileOrder(lg) ==
    /\ Len(lg) <= Len(file)
    /\ \A i \in DOMAIN lg : lg[i].line = StripNewline(file[i])
    /\ \A i \in 1..(Len(lg) - 1) : lg[i].ret = "true"

C25_StopsAtFirstFailure ==
    [][/\ fileRet = "none"
       /\ C25_InFileOrder(log')
       /\ Len(log') \in {Len(log), Len(log) + 1}
       /\ (/\ Len(log') = Len(log) + 1
           /\ log'[Len(log')].ret = "false")
          => /\ fileRet' = "false"
             /\ objects' = objects
             /\ variables' = variables
       /\ (fileRet' = "false" /\ log' # << >>)
          => log'[Len(log')].ret = "false"
       /\ fileRet' = "true"
          => /\ Len(log') = Len(file)
             /\ \A i \in DOMAIN log' : log'[i].ret = "true"]_vars

C25_Witness ==
    /\ fileRet = "false"
    /\ Len(file) = 3
    /\ Len(log) = 2
    /\ log[1].line = L_line_a
    /\ log[1].ret = "true"
    /\ log[2].line = L_triangle
    /\ log[2].ret = "false"
    /\ file[3] = L_set_fixed \o <<NL>>
    /\ Len(objects) = 1
    /\ Len(variables) = 1

=============================================================================
